---- MODULE Spec2Model ----
(***************************************************************************)
(* Model of the weight-tracker Store abstraction (cmd/tracker/store.go,    *)
(* cmd/tracker/store_mock.go, queries.sql) and of the commands that drive  *)
(* it.  One store is constructed per behaviour: either the in-memory       *)
(* MockStore or the SQLite-backed DBStore.                                 *)
(*                                                                         *)
(* Encoding of values:                                                     *)
(*   - time.Time is a tick count; tick 0 is the zero time (time.Time{}),   *)
(*     TicksPerDay ticks make one calendar day, so a tick that is not a    *)
(*     multiple of TicksPerDay carries a time of day;                      *)
(*   - the ISO text of the date column is the day number;                  *)
(*   - float64 weights are small integers (negative, zero, positive);      *)
(*   - sql.NullString is a record [String, Valid].                         *)
(***************************************************************************)
EXTENDS Integers, Sequences, FiniteSets, TLC

\* ---------------------------------------------------------------- bounds

\* largest id a store hands out in Spec (every field varies)
MaxID == 1
\* largest id a store hands out in SpecList (several entries, fewer values)
MaxListID == 2
\* largest id a store hands out in SpecSort (enough entries for a sort to
\* move one past two others)
MaxSortID == 3
\* longest slice passed to calculateStatistics
MaxStatsLen == 3
\* largest tick of a date passed to calculateStatistics
MaxStatsTick == 5
\* calendar days per year
DaysPerYear == 1
\* longest slice passed to a chart function: one entry more than the grid
\* has columns
MaxChartLen == 21
\* bits of the mantissa of a float (53 in float64)
MantissaBits == 12
\* chartHeight := 10
chartHeight == 10
\* the cap of chartWidth
MaxChartWidth == 20
\* largest Limit of a ListOptions argument
MaxLimit == 1
\* largest number of non-zero fields (beside the ID) of an UpdateWeight argument
MaxSet == 2
\* largest tick of a time.Time argument
MaxTick == 2
\* ticks per calendar day
TicksPerDay == 2

\* ---------------------------------------------------------------- values

Weights == {-1, 0, 1, 2}
Dates == 0..MaxTick
Units == {"", "kg", "lbs", "KG"}
Notes == {"", "n"}
UserIDs == {"", "u"}
IDs == 0..(MaxID + 1)
ListIDs == 0..(MaxListID + 1)

\* type WeightEntry struct
WeightEntry(id, w, d, u, n, o) ==
    [ID |-> id, Weight |-> w, Date |-> d, Unit |-> u, Note |-> n, UserID |-> o]

\* WeightEntry{}: the zero value returned beside every error
ZeroEntry == WeightEntry(0, 0, 0, "", "", "")

\* the entries a caller can pass to AddWeight (the ID is overwritten)
AddArgs ==
    {WeightEntry(0, w, d, u, n, o) :
        w \in Weights, d \in Dates, u \in Units, n \in Notes, o \in UserIDs}

\* the fields of entry, beside the ID, that differ from their zero value
SetFields(entry) ==
    {f \in {"Weight", "Date", "Unit", "Note", "UserID"} : entry[f] # ZeroEntry[f]}

\* the entries a caller can pass to UpdateWeight
UpdateArgs ==
    {e \in {WeightEntry(id, w, d, u, n, o) :
                id \in IDs, w \in Weights, d \in Dates, u \in Units,
                n \in Notes, o \in UserIDs} :
        Cardinality(SetFields(e)) <= MaxSet}

\* SpecList: the entries added and the updates applied vary in the fields
\* ListWeights reads (weight, date, unit) and are otherwise valid
ListAddArgs ==
    {WeightEntry(0, w, d, u, "", "") :
        w \in {1, 2}, d \in Dates, u \in {"kg", "lbs"}}

ListUpdateArgs ==
    {e \in {WeightEntry(id, w, d, u, "", "") :
                id \in ListIDs, w \in {0, 1, 2}, d \in Dates,
                u \in {"", "kg", "lbs"}} :
        Cardinality(SetFields(e)) <= MaxSet}

\* a nil *time.Time
NoDate == -1

\* type ListOptions struct
ListOptions(from, to, limit, sortBy, sortDesc, unit) ==
    [FromDate |-> from, ToDate |-> to, Limit |-> limit, SortBy |-> sortBy,
     SortDesc |-> sortDesc, Unit |-> unit]

\* ListOptions{}
ZeroOptions == ListOptions(NoDate, NoDate, 0, "", FALSE, "")

\* the options a caller passes to ListWeights
ListArgs ==
    {ListOptions(from, to, limit, sortBy, sortDesc, unit) :
        from \in {NoDate, MaxTick}, to \in {NoDate, MaxTick},
        limit \in 0..MaxLimit, sortBy \in {"", "date", "weight"},
        sortDesc \in BOOLEAN, unit \in {"", "kg"}}

\* the partial entries passed to UpdateWeight in SpecBoth
BothUpdateArgs == {e \in ListUpdateArgs : e.ID \in IDs}

\* the entries added in SpecSort: two weights, two days, two units
SortAddArgs ==
    {WeightEntry(0, w, d, u, "", "") : w \in {1, 2}, d \in {0, MaxTick},
                                       u \in {"kg", "lbs"}}

\* the ids deleted in SpecSort
SortIDs == 1..MaxSortID

\* the options a caller passes to ListWeights in SpecSort: every sort key and
\* direction, with and without a unit
SortArgs ==
    {ListOptions(NoDate, NoDate, 0, sortBy, sortDesc, unit) :
        sortBy \in {"", "date", "weight"}, sortDesc \in BOOLEAN,
        unit \in {"", "kg"}}

\* a flag that is not on the command line
NotGiven == "<not given>"

\* the --sort and --desc flags of the list command, as given on the command
\* line; the other flags are left out (not given)
ListFlags ==
    {[sort |-> s, desc |-> d] : s \in {NotGiven, "date", "weight", "id"},
                                d \in {NotGiven, "true", "false"}}

\* the entries ValidateWeightEntry is called with: every field varies
ValidateArgs ==
    {WeightEntry(id, w, d, u, n, o) :
        id \in IDs, w \in Weights, d \in Dates, u \in Units, n \in Notes,
        o \in UserIDs}

\* the slices calculateStatistics is called with: entries numbered by
\* position, three weights, dates from the zero time over a time in year 1
\* to days of later years
StatsArgs ==
    UNION {{[i \in 1..n |-> WeightEntry(i, f[i][1], f[i][2], "kg", "", "")] :
                f \in [1..n -> {1, 2, 3} \X (0..MaxStatsTick)]} :
           n \in 0..MaxStatsLen}

\* time.Time.IsZero
IsZero(t) == t = 0

\* FormatDateForDB: t.Format("2006-01-02") keeps the calendar day only
FormatDateForDB(t) == t \div TicksPerDay

\* time.Parse(DBFormat, s): midnight of the day
ParseDBDate(s) == s * TicksPerDay

\* sql.NullString{String: s, Valid: s != ""} as the driver stores and
\* returns it: an invalid NullString is NULL and reads back with String ""
NullString(s) == [String |-> s, Valid |-> s # ""]

\* ---------------------------------------------------------------- errors

ErrNil == "nil"
ErrInvalidID == "InvalidID"
ErrNotFound == "NotFound"
ErrInvalidWeight == "InvalidWeight"
ErrInvalidUnit == "InvalidUnit"

\* a variant that compares the unit without regard to case
ValidateWeightEntryAnyCase(entry) ==
    IF entry.Weight <= 0 THEN ErrInvalidWeight
    ELSE IF entry.Unit # "" /\ entry.Unit # "kg" /\ entry.Unit # "lbs"
            /\ entry.Unit # "KG"
    THEN ErrInvalidUnit
    ELSE ErrNil

\* a variant that rejects only negative weights
ValidateWeightEntryAllowsZero(entry) ==
    IF entry.Weight < 0 THEN ErrInvalidWeight
    ELSE IF entry.Unit # "" /\ entry.Unit # "kg" /\ entry.Unit # "lbs"
    THEN ErrInvalidUnit
    ELSE ErrNil

\* ValidateWeightEntry
ValidateWeightEntry(entry) ==
    IF entry.Weight <= 0 THEN ErrInvalidWeight
    ELSE IF entry.Unit # "" /\ entry.Unit # "kg" /\ entry.Unit # "lbs"
         THEN ErrInvalidUnit
         ELSE ErrNil

\* a variant that always takes the note of the update
MergeEntryOverwriteNote(existingEntry, entry) ==
    [ID |-> existingEntry.ID,
     Weight |-> IF entry.Weight # 0 THEN entry.Weight ELSE existingEntry.Weight,
     Date |-> IF ~IsZero(entry.Date) THEN entry.Date ELSE existingEntry.Date,
     Unit |-> IF entry.Unit # "" THEN entry.Unit ELSE existingEntry.Unit,
     Note |-> entry.Note,
     UserID |-> IF entry.UserID # "" THEN entry.UserID ELSE existingEntry.UserID]

\* the partial-update merge both stores perform: only non-zero fields of
\* entry replace those of existingEntry
MergeEntry(existingEntry, entry) ==
    [ID |-> existingEntry.ID,
     Weight |-> IF entry.Weight # 0 THEN entry.Weight ELSE existingEntry.Weight,
     Date |-> IF ~IsZero(entry.Date) THEN entry.Date ELSE existingEntry.Date,
     Unit |-> IF entry.Unit # "" THEN entry.Unit ELSE existingEntry.Unit,
     Note |-> IF entry.Note # "" THEN entry.Note ELSE existingEntry.Note,
     UserID |-> IF entry.UserID # "" THEN entry.UserID ELSE existingEntry.UserID]

\* ---------------------------------------------------------------- state

VARIABLES
    impl,      \* "mock" or "db": the Store implementation constructed
    entries,   \* MockStore.entries
    nextID,    \* MockStore.nextID
    rows,      \* the weights table of the DBStore, in rowid order
    last       \* the last Store call: operation, argument, error, result

vars == <<impl, entries, nextID, rows, last>>

\* a call of one entry (add, get, update, delete) and a call of ListWeights
Call(op, arg, err, entry) ==
    [op |-> op, arg |-> arg, err |-> err, entry |-> entry,
     opts |-> ZeroOptions, list |-> <<>>]

ListCall(options, result) ==
    [op |-> "list", arg |-> ZeroEntry, err |-> ErrNil, entry |-> ZeroEntry,
     opts |-> options, list |-> result]

\* index of the first element of s whose id field equals id, 0 if none
IndexOfID(s, id) ==
    IF \E i \in 1..Len(s) : s[i].ID = id
    THEN CHOOSE i \in 1..Len(s) :
            s[i].ID = id /\ \A j \in 1..(i - 1) : s[j].ID # id
    ELSE 0

RemoveAt(s, i) == SubSeq(s, 1, i - 1) \o SubSeq(s, i + 1, Len(s))

Init ==
    /\ impl \in {"mock", "db"}
    /\ entries = <<>>
    /\ nextID = 1
    /\ rows = <<>>
    /\ last = Call("none", ZeroEntry, ErrNil, ZeroEntry)

\* ---------------------------------------------------------------- MockStore

\* a variant that numbers the new entry by the count of stored entries
MockAddWeightResultByCount(entry) ==
    LET stored == [entry EXCEPT !.ID = Len(entries) + 1] IN
    [entries |-> Append(entries, stored), nextID |-> Len(entries) + 2,
     err |-> ErrNil, entry |-> stored]

\* what MockStore.AddWeight does to the slice and the counter, and returns
MockAddWeightResult(entry) ==
    LET stored == [entry EXCEPT !.ID = nextID] IN
    [entries |-> Append(entries, stored), nextID |-> nextID + 1,
     err |-> ErrNil, entry |-> stored]

\* a variant that returns the numbered entry and appends the unnumbered one
MockAddNoID(op, entry) ==
    /\ impl = "mock"
    /\ LET stored == [entry EXCEPT !.ID = nextID] IN
        /\ entries' = Append(entries, entry)
        /\ nextID' = nextID + 1
        /\ last' = Call(op, entry, ErrNil, stored)
    /\ UNCHANGED <<impl, rows>>

\* the body of MockStore.AddWeight, recorded as the call op (the Store call
\* itself, or the add command that makes it)
MockAdd(op, entry) ==
    /\ impl = "mock"
    /\ LET r == MockAddWeightResult(entry) IN
        /\ entries' = r.entries
        /\ nextID' = r.nextID
        /\ last' = Call(op, entry, r.err, r.entry)
    /\ UNCHANGED <<impl, rows>>

\* MockStore.AddWeight
MockAddWeight(entry) == MockAdd("add", entry)

\* what MockStore.GetWeight returns on the slice s
MockGetResult(s, id) ==
    LET i == IndexOfID(s, id) IN
    IF i # 0 THEN [err |-> ErrNil, entry |-> s[i]]
    ELSE [err |-> ErrNotFound, entry |-> ZeroEntry]

\* MockStore.GetWeight
MockGetWeight(id) ==
    /\ impl = "mock"
    /\ LET r == MockGetResult(entries, id) IN
        last' = Call("get", [ZeroEntry EXCEPT !.ID = id], r.err, r.entry)
    /\ UNCHANGED <<impl, entries, nextID, rows>>

\* a variant that fills the place of the removed entry with the last one
MockDeleteWeightResultSwapRemove(id) ==
    LET i == IndexOfID(entries, id)
        n == Len(entries) IN
    IF id <= 0 THEN [entries |-> entries, err |-> ErrInvalidID]
    ELSE IF i # 0
    THEN [entries |-> [k \in 1..(n - 1) |->
                          IF k = i THEN entries[n] ELSE entries[k]],
          err |-> ErrNil]
    ELSE [entries |-> entries, err |-> ErrNotFound]

\* what MockStore.DeleteWeight does to the slice, and returns
MockDeleteWeightResult(id) ==
    LET i == IndexOfID(entries, id) IN
    IF id <= 0 THEN [entries |-> entries, err |-> ErrInvalidID]
    ELSE IF i # 0 THEN [entries |-> RemoveAt(entries, i), err |-> ErrNil]
    ELSE [entries |-> entries, err |-> ErrNotFound]

\* a variant that reports success and removes nothing
MockDeleteWeightKeep(id) ==
    /\ impl = "mock"
    /\ LET i == IndexOfID(entries, id)
           arg == [ZeroEntry EXCEPT !.ID = id] IN
        IF id <= 0
        THEN last' = Call("delete", arg, ErrInvalidID, ZeroEntry)
        ELSE IF i # 0
        THEN last' = Call("delete", arg, ErrNil, ZeroEntry)
        ELSE last' = Call("delete", arg, ErrNotFound, ZeroEntry)
    /\ UNCHANGED <<impl, entries, nextID, rows>>

\* MockStore.DeleteWeight
MockDeleteWeight(id) ==
    /\ impl = "mock"
    /\ LET r == MockDeleteWeightResult(id) IN
        /\ entries' = r.entries
        /\ last' = Call("delete", [ZeroEntry EXCEPT !.ID = id], r.err, ZeroEntry)
    /\ UNCHANGED <<impl, nextID, rows>>

\* what MockStore.UpdateWeight does to the slice, and returns
MockUpdateWeightResult(entry) ==
    LET i == IndexOfID(entries, entry.ID) IN
    IF entry.ID <= 0
    THEN [entries |-> entries, err |-> ErrInvalidID, entry |-> ZeroEntry]
    ELSE IF ValidateWeightEntry(entry) # ErrNil
    THEN [entries |-> entries, err |-> ValidateWeightEntry(entry),
          entry |-> ZeroEntry]
    ELSE IF i # 0
    THEN LET updatedEntry == MergeEntry(entries[i], entry) IN
         [entries |-> [entries EXCEPT ![i] = updatedEntry], err |-> ErrNil,
          entry |-> updatedEntry]
    ELSE [entries |-> entries, err |-> ErrNotFound, entry |-> ZeroEntry]

\* MockStore.UpdateWeight
MockUpdateWeight(entry) ==
    /\ impl = "mock"
    /\ LET r == MockUpdateWeightResult(entry) IN
        /\ entries' = r.entries
        /\ last' = Call("update", entry, r.err, r.entry)
    /\ UNCHANGED <<impl, nextID, rows>>

\* a variant whose descending weight loop swaps on the ascending condition
OutOfOrderWeightDescFlipped(sortBy, sortDesc, a, b) ==
    IF sortBy = "date"
    THEN IF sortDesc THEN a.Date < b.Date ELSE a.Date > b.Date
    ELSE IF sortBy = "weight"
    THEN a.Weight > b.Weight
    ELSE FALSE

\* the swap conditions of the four sort loops of MockStore.ListWeights; no
\* loop runs for another sort key
OutOfOrder(sortBy, sortDesc, a, b) ==
    IF sortBy = "date"
    THEN IF sortDesc THEN a.Date < b.Date ELSE a.Date > b.Date
    ELSE IF sortBy = "weight"
    THEN IF sortDesc THEN a.Weight < b.Weight ELSE a.Weight > b.Weight
    ELSE FALSE

\* result[i], result[j] = result[j], result[i]
Swap(s, i, j) == [s EXCEPT ![i] = s[j], ![j] = s[i]]

\* the nested loops: for i in 0..len-2, for j in i+1..len-1, swap when out
\* of order (indices here are 1-based)
RECURSIVE ExchangeSort(_, _, _, _, _)
ExchangeSort(s, sortBy, sortDesc, i, j) ==
    IF i > Len(s) - 1 THEN s
    ELSE IF j > Len(s) THEN ExchangeSort(s, sortBy, sortDesc, i + 1, i + 2)
    ELSE ExchangeSort(IF OutOfOrder(sortBy, sortDesc, s[i], s[j])
                      THEN Swap(s, i, j) ELSE s,
                      sortBy, sortDesc, i, j + 1)

\* a variant that drops the entries of the requested unit and keeps the rest
UnitFilterOthers(s, unit) ==
    IF unit # "" THEN SelectSeq(s, LAMBDA e : e.Unit # unit) ELSE s

\* the unit filter both stores apply to converted entries
UnitFilter(s, unit) ==
    IF unit # "" THEN SelectSeq(s, LAMBDA e : e.Unit = unit) ELSE s

\* the first n elements of s, all of s when it is shorter
Take(s, n) == SubSeq(s, 1, IF n < Len(s) THEN n ELSE Len(s))

\* what MockStore.ListWeights returns on the slice s
MockListResult(s, options) ==
    LET dated ==
            IF options.FromDate # NoDate \/ options.ToDate # NoDate
            THEN SelectSeq(s, LAMBDA e :
                    /\ ~(options.FromDate # NoDate /\ e.Date < options.FromDate)
                    /\ ~(options.ToDate # NoDate /\ e.Date > options.ToDate))
            ELSE s
        filtered == UnitFilter(dated, options.Unit)
        sorted ==
            IF options.SortBy # ""
            THEN ExchangeSort(filtered, options.SortBy, options.SortDesc, 1, 2)
            ELSE filtered
    IN  IF options.Limit > 0 /\ options.Limit < Len(sorted)
        THEN SubSeq(sorted, 1, options.Limit)
        ELSE sorted

\* a variant that filters, sorts and cuts the store's own slice
MockListWeightsInPlace(options) ==
    /\ impl = "mock"
    /\ entries' = MockListResult(entries, options)
    /\ last' = ListCall(options, MockListResult(entries, options))
    /\ UNCHANGED <<impl, nextID, rows>>

\* MockStore.ListWeights
MockListWeights(options) ==
    /\ impl = "mock"
    /\ last' = ListCall(options, MockListResult(entries, options))
    /\ UNCHANGED <<impl, entries, nextID, rows>>

\* ---------------------------------------------------------------- DBStore

\* a variant that numbers a new row by the row count
NextRowIDCount == Len(rows) + 1

\* INTEGER PRIMARY KEY without AUTOINCREMENT: one more than the largest rowid
NextRowID ==
    IF rows = <<>> THEN 1
    ELSE 1 + (CHOOSE m \in {rows[i].id : i \in 1..Len(rows)} :
                 \A j \in 1..Len(rows) : rows[j].id <= m)

\* DBStore.sqlcToWeightEntry
sqlcToWeightEntry(sqlcEntry) ==
    [ID |-> sqlcEntry.id,
     Weight |-> sqlcEntry.weight,
     Date |-> IF sqlcEntry.date.Valid THEN ParseDBDate(sqlcEntry.date.Day) ELSE 0,
     Unit |-> IF sqlcEntry.unit.Valid THEN sqlcEntry.unit.String ELSE "",
     Note |-> IF sqlcEntry.note.Valid THEN sqlcEntry.note.String ELSE "",
     UserID |-> IF sqlcEntry.user_id.Valid THEN sqlcEntry.user_id.String ELSE ""]

\* a column written from a sql.NullString: NULL unless Valid
Column(ns) == IF ns.Valid THEN ns ELSE [String |-> "", Valid |-> FALSE]

\* the date parameter DBStore passes: the ISO day, always Valid
DateParam(t) == [Day |-> FormatDateForDB(t), Valid |-> TRUE]

\* index in the table s of the row with this id (WHERE id = ?), 0 if none
RowIndexIn(s, id) ==
    IF \E i \in 1..Len(s) : s[i].id = id
    THEN CHOOSE i \in 1..Len(s) : s[i].id = id
    ELSE 0

RowIndex(id) == RowIndexIn(rows, id)

\* what DBStore.AddWeight with the AddWeight query (INSERT ... RETURNING *)
\* does to the table, and returns
DBAddWeightResult(entry) ==
    LET row == [id |-> NextRowID,
                weight |-> entry.Weight,
                date |-> DateParam(entry.Date),
                unit |-> Column(NullString(entry.Unit)),
                note |-> Column(NullString(entry.Note)),
                user_id |-> Column(NullString(""))] IN
    [rows |-> Append(rows, row), err |-> ErrNil, entry |-> sqlcToWeightEntry(row)]

\* the body of DBStore.AddWeight, recorded as the call op
DBAdd(op, entry) ==
    /\ impl = "db"
    /\ LET r == DBAddWeightResult(entry) IN
        /\ rows' = r.rows
        /\ last' = Call(op, entry, r.err, r.entry)
    /\ UNCHANGED <<impl, entries, nextID>>

\* DBStore.AddWeight
DBAddWeight(entry) == DBAdd("add", entry)

\* what DBStore.GetWeight returns on the table s (sql.ErrNoRows is the not
\* found error)
DBGetResult(s, id) ==
    LET i == RowIndexIn(s, id) IN
    IF i # 0 THEN [err |-> ErrNil, entry |-> sqlcToWeightEntry(s[i])]
    ELSE [err |-> ErrNotFound, entry |-> ZeroEntry]

\* DBStore.GetWeight with the GetWeight query
DBGetWeight(id) ==
    /\ impl = "db"
    /\ LET r == DBGetResult(rows, id) IN
        last' = Call("get", [ZeroEntry EXCEPT !.ID = id], r.err, r.entry)
    /\ UNCHANGED <<impl, entries, nextID, rows>>

\* what DBStore.DeleteWeight with the GetWeight and DeleteWeight queries
\* does to the table, and returns
DBDeleteWeightResult(id) ==
    LET i == RowIndex(id) IN
    IF id <= 0 THEN [rows |-> rows, err |-> ErrInvalidID]
    ELSE IF i = 0 THEN [rows |-> rows, err |-> ErrNotFound]
    ELSE [rows |-> RemoveAt(rows, i), err |-> ErrNil]

\* a variant without the id check
DBDeleteWeightNoIDCheck(id) ==
    /\ impl = "db"
    /\ LET i == RowIndex(id)
           arg == [ZeroEntry EXCEPT !.ID = id] IN
        IF i = 0
        THEN /\ last' = Call("delete", arg, ErrNotFound, ZeroEntry)
             /\ UNCHANGED rows
        ELSE /\ rows' = RemoveAt(rows, i)
             /\ last' = Call("delete", arg, ErrNil, ZeroEntry)
    /\ UNCHANGED <<impl, entries, nextID>>

\* DBStore.DeleteWeight
DBDeleteWeight(id) ==
    /\ impl = "db"
    /\ LET r == DBDeleteWeightResult(id) IN
        /\ rows' = r.rows
        /\ last' = Call("delete", [ZeroEntry EXCEPT !.ID = id], r.err, ZeroEntry)
    /\ UNCHANGED <<impl, entries, nextID>>

\* a variant that runs the UPDATE query before it validates the merged entry
DBUpdateWeightWriteFirst(entry) ==
    /\ impl = "db"
    /\ LET i == RowIndex(entry.ID) IN
        IF entry.ID <= 0
        THEN /\ last' = Call("update", entry, ErrInvalidID, ZeroEntry)
             /\ UNCHANGED rows
        ELSE IF i = 0
        THEN /\ last' = Call("update", entry, ErrNotFound, ZeroEntry)
             /\ UNCHANGED rows
        ELSE LET updatedEntry == MergeEntry(DBGetResult(rows, entry.ID).entry, entry)
                 row == [id |-> updatedEntry.ID,
                         weight |-> updatedEntry.Weight,
                         date |-> DateParam(updatedEntry.Date),
                         unit |-> Column(NullString(updatedEntry.Unit)),
                         note |-> Column(NullString(updatedEntry.Note)),
                         user_id |-> Column(NullString(updatedEntry.UserID))] IN
             /\ rows' = [rows EXCEPT ![i] = row]
             /\ last' = IF ValidateWeightEntry(updatedEntry) # ErrNil
                        THEN Call("update", entry,
                                  ValidateWeightEntry(updatedEntry), ZeroEntry)
                        ELSE Call("update", entry, ErrNil, sqlcToWeightEntry(row))
    /\ UNCHANGED <<impl, entries, nextID>>

\* what DBStore.UpdateWeight with the GetWeight and UpdateWeight queries
\* does to the table, and returns
DBUpdateWeightResult(entry) ==
    LET i == RowIndex(entry.ID) IN
    IF entry.ID <= 0
    THEN [rows |-> rows, err |-> ErrInvalidID, entry |-> ZeroEntry]
    ELSE IF i = 0
    THEN [rows |-> rows, err |-> ErrNotFound, entry |-> ZeroEntry]
    ELSE LET updatedEntry == MergeEntry(DBGetResult(rows, entry.ID).entry, entry)
             row == [id |-> updatedEntry.ID,
                     weight |-> updatedEntry.Weight,
                     date |-> DateParam(updatedEntry.Date),
                     unit |-> Column(NullString(updatedEntry.Unit)),
                     note |-> Column(NullString(updatedEntry.Note)),
                     user_id |-> Column(NullString(updatedEntry.UserID))] IN
         IF ValidateWeightEntry(updatedEntry) # ErrNil
         THEN [rows |-> rows, err |-> ValidateWeightEntry(updatedEntry),
               entry |-> ZeroEntry]
         ELSE [rows |-> [rows EXCEPT ![i] = row], err |-> ErrNil,
               entry |-> sqlcToWeightEntry(row)]

\* DBStore.UpdateWeight
DBUpdateWeight(entry) ==
    /\ impl = "db"
    /\ LET r == DBUpdateWeightResult(entry) IN
        /\ rows' = r.rows
        /\ last' = Call("update", entry, r.err, r.entry)
    /\ UNCHANGED <<impl, entries, nextID>>

\* ORDER BY key of a row: the date text or the weight
SortKey(row, column) == IF column = "weight" THEN row.weight ELSE row.date.Day

\* ORDER BY column ASC|DESC over rows scanned in rowid order: SQLite's sorter
\* keeps rows with equal keys in scan order
RECURSIVE SqlOrderBy(_, _, _)
SqlOrderBy(s, column, desc) ==
    IF s = <<>> THEN <<>>
    ELSE LET Before(a, b) ==
                 IF desc THEN SortKey(a, column) > SortKey(b, column)
                 ELSE SortKey(a, column) < SortKey(b, column)
             IsFirst(i) == \A j \in 1..Len(s) : ~Before(s[j], s[i])
             i == CHOOSE i \in 1..Len(s) :
                     IsFirst(i) /\ \A k \in 1..(i - 1) : ~IsFirst(k)
         IN  <<s[i]>> \o SqlOrderBy(RemoveAt(s, i), column, desc)

\* the four ListWeights* queries: WHERE on the date text, ORDER BY, LIMIT
\* (a negative LIMIT is no limit); startDate and endDate are NoDate for NULL
SqlListWeights(s, column, desc, startDate, endDate, rowLimit) ==
    LET selected == SelectSeq(s, LAMBDA r :
                        /\ (startDate = NoDate
                             \/ (r.date.Valid /\ r.date.Day >= startDate))
                        /\ (endDate = NoDate
                             \/ (r.date.Valid /\ r.date.Day <= endDate)))
        ordered == SqlOrderBy(selected, column, desc)
    IN  IF rowLimit < 0 THEN ordered ELSE Take(ordered, rowLimit)

\* what DBStore.ListWeights returns on the table s
DBListResult(s, options) ==
    LET sortBy == IF options.SortBy = "" THEN "date" ELSE options.SortBy
        limit == IF options.Limit = 0 THEN -1 ELSE options.Limit
        startDate == IF options.FromDate # NoDate
                     THEN FormatDateForDB(options.FromDate) ELSE NoDate
        endDate == IF options.ToDate # NoDate
                   THEN FormatDateForDB(options.ToDate) ELSE NoDate
        sqlcEntries ==
            IF sortBy = "date" /\ options.SortDesc
            THEN SqlListWeights(s, "date", TRUE, startDate, endDate, limit)
            ELSE IF sortBy = "date"
            THEN SqlListWeights(s, "date", FALSE, startDate, endDate, limit)
            ELSE IF sortBy = "weight" /\ options.SortDesc
            THEN SqlListWeights(s, "weight", TRUE, startDate, endDate, limit)
            ELSE IF sortBy = "weight"
            THEN SqlListWeights(s, "weight", FALSE, startDate, endDate, limit)
            ELSE SqlListWeights(s, "date", TRUE, startDate, endDate, limit)
        converted == [i \in 1..Len(sqlcEntries) |-> sqlcToWeightEntry(sqlcEntries[i])]
    IN  UnitFilter(converted, options.Unit)

\* DBStore.ListWeights
DBListWeights(options) ==
    /\ impl = "db"
    /\ last' = ListCall(options, DBListResult(rows, options))
    /\ UNCHANGED <<impl, entries, nextID, rows>>

\* ------------------------------------------------- both stores side by side

\* what a Store call returns: the error, and the entry or the entries
Outcome(err, entry, list) == [err |-> err, entry |-> entry, list |-> list]

\* one call made on a MockStore and on a DBStore, with what each returned
BothCall(op, arg, options, mock, db) ==
    [op |-> op, arg |-> arg, opts |-> options, mock |-> mock, db |-> db]

\* a fresh MockStore and a fresh DBStore
InitBoth ==
    /\ impl = "both"
    /\ entries = <<>>
    /\ nextID = 1
    /\ rows = <<>>
    /\ last = BothCall("none", ZeroEntry, ZeroOptions,
                       Outcome(ErrNil, ZeroEntry, <<>>),
                       Outcome(ErrNil, ZeroEntry, <<>>))

\* AddWeight with the same entry on both stores
BothAddWeight(entry) ==
    /\ impl = "both"
    /\ LET m == MockAddWeightResult(entry)
           d == DBAddWeightResult(entry) IN
        /\ entries' = m.entries
        /\ nextID' = m.nextID
        /\ rows' = d.rows
        /\ last' = BothCall("add", entry, ZeroOptions,
                            Outcome(m.err, m.entry, <<>>),
                            Outcome(d.err, d.entry, <<>>))
    /\ UNCHANGED impl

\* GetWeight with the same id on both stores
BothGetWeight(id) ==
    /\ impl = "both"
    /\ LET m == MockGetResult(entries, id)
           d == DBGetResult(rows, id) IN
        last' = BothCall("get", [ZeroEntry EXCEPT !.ID = id], ZeroOptions,
                         Outcome(m.err, m.entry, <<>>),
                         Outcome(d.err, d.entry, <<>>))
    /\ UNCHANGED <<impl, entries, nextID, rows>>

\* ListWeights with the same options on both stores
BothListWeights(options) ==
    /\ impl = "both"
    /\ last' = BothCall("list", ZeroEntry, options,
                        Outcome(ErrNil, ZeroEntry, MockListResult(entries, options)),
                        Outcome(ErrNil, ZeroEntry, DBListResult(rows, options)))
    /\ UNCHANGED <<impl, entries, nextID, rows>>

\* UpdateWeight with the same entry on both stores
BothUpdateWeight(entry) ==
    /\ impl = "both"
    /\ LET m == MockUpdateWeightResult(entry)
           d == DBUpdateWeightResult(entry) IN
        /\ entries' = m.entries
        /\ rows' = d.rows
        /\ last' = BothCall("update", entry, ZeroOptions,
                            Outcome(m.err, m.entry, <<>>),
                            Outcome(d.err, d.entry, <<>>))
    /\ UNCHANGED <<impl, nextID>>

\* DeleteWeight with the same id on both stores
BothDeleteWeight(id) ==
    /\ impl = "both"
    /\ LET m == MockDeleteWeightResult(id)
           d == DBDeleteWeightResult(id) IN
        /\ entries' = m.entries
        /\ rows' = d.rows
        /\ last' = BothCall("delete", [ZeroEntry EXCEPT !.ID = id], ZeroOptions,
                            Outcome(m.err, ZeroEntry, <<>>),
                            Outcome(d.err, ZeroEntry, <<>>))
    /\ UNCHANGED <<impl, nextID>>

\* ---------------------------------------------------------------- commands

\* runAddInternal from the validation on: validate, then Store.AddWeight
runAddInternal(entry) ==
    IF ValidateWeightEntry(entry) # ErrNil
    THEN /\ last' = Call("runAdd", entry, ValidateWeightEntry(entry), ZeroEntry)
         /\ UNCHANGED <<impl, entries, nextID, rows>>
    ELSE MockAdd("runAdd", entry) \/ DBAdd("runAdd", entry)

\* ------------------------------------------------------------- statistics

\* time.Time.Year: the zero time is in year 1
Year(t) == 1 + (t \div TicksPerDay) \div DaysPerYear

\* a variant of the empty result that counts one entry
ZeroStatisticsCounted ==
    [MinWeight |-> 0, MinWeightEntry |-> ZeroEntry,
     MaxWeight |-> 0, MaxWeightEntry |-> ZeroEntry,
     AverageWeight |-> [Num |-> 0, Den |-> 1], TotalEntries |-> 1,
     TimeSpan |-> 0, WeightRange |-> 0,
     FirstEntry |-> ZeroEntry, LastEntry |-> ZeroEntry]

\* WeightStatistics{}; the float64 average is kept as a fraction
ZeroStatistics ==
    [MinWeight |-> 0, MinWeightEntry |-> ZeroEntry,
     MaxWeight |-> 0, MaxWeightEntry |-> ZeroEntry,
     AverageWeight |-> [Num |-> 0, Den |-> 1], TotalEntries |-> 0,
     TimeSpan |-> 0, WeightRange |-> 0,
     FirstEntry |-> ZeroEntry, LastEntry |-> ZeroEntry]

\* a variant that takes every date for a valid one
HasValidDateAlways(entry) == TRUE

\* !entry.Date.IsZero() && entry.Date.Year() > 1
HasValidDate(entry) == ~IsZero(entry.Date) /\ Year(entry.Date) > 1

\* the loop of calculateStatistics from position k on; acc holds the locals
RECURSIVE StatisticsLoop(_, _, _)
StatisticsLoop(weightEntries, k, acc) ==
    IF k > Len(weightEntries) THEN acc
    ELSE LET entry == weightEntries[k]
             minEntry == IF entry.Weight < acc.minEntry.Weight
                         THEN entry ELSE acc.minEntry
             maxEntry == IF entry.Weight > acc.maxEntry.Weight
                         THEN entry ELSE acc.maxEntry
             firstEntry ==
                 IF /\ HasValidDate(entry)
                    /\ \/ entry.Date < acc.firstEntry.Date
                       \/ IsZero(acc.firstEntry.Date)
                       \/ Year(acc.firstEntry.Date) <= 1
                 THEN entry ELSE acc.firstEntry
             lastEntry ==
                 IF /\ HasValidDate(entry)
                    /\ \/ entry.Date > acc.lastEntry.Date
                       \/ IsZero(acc.lastEntry.Date)
                       \/ Year(acc.lastEntry.Date) <= 1
                 THEN entry ELSE acc.lastEntry
         IN  StatisticsLoop(weightEntries, k + 1,
                 [firstEntry |-> firstEntry, lastEntry |-> lastEntry,
                  minEntry |-> minEntry, maxEntry |-> maxEntry,
                  totalWeight |-> acc.totalWeight + entry.Weight,
                  validDates |-> IF HasValidDate(entry)
                                 THEN acc.validDates + 1 ELSE acc.validDates])

\* calculateStatistics
calculateStatistics(weightEntries) ==
    IF Len(weightEntries) = 0 THEN ZeroStatistics
    ELSE LET acc == StatisticsLoop(weightEntries, 1,
                        [firstEntry |-> weightEntries[1],
                         lastEntry |-> weightEntries[1],
                         minEntry |-> weightEntries[1],
                         maxEntry |-> weightEntries[1],
                         totalWeight |-> 0, validDates |-> 0])
         IN  [MinWeight |-> acc.minEntry.Weight,
              MinWeightEntry |-> acc.minEntry,
              MaxWeight |-> acc.maxEntry.Weight,
              MaxWeightEntry |-> acc.maxEntry,
              AverageWeight |-> [Num |-> acc.totalWeight,
                                 Den |-> Len(weightEntries)],
              TotalEntries |-> Len(weightEntries),
              TimeSpan |-> IF acc.validDates > 1
                           THEN acc.lastEntry.Date - acc.firstEntry.Date ELSE 0,
              WeightRange |-> acc.maxEntry.Weight - acc.minEntry.Weight,
              FirstEntry |-> acc.firstEntry,
              LastEntry |-> acc.lastEntry]

\* the slice of entries a caller is about to pass to calculateStatistics
InitStats ==
    /\ impl = "db"
    /\ entries = <<>>
    /\ nextID = 1
    /\ rows = <<>>
    /\ last \in {[op |-> "statsInput", input |-> s] : s \in StatsArgs}

\* the call of calculateStatistics on that slice
Statistics ==
    /\ last.op = "statsInput"
    /\ last' = [op |-> "stats", input |-> last.input,
                stats |-> calculateStatistics(last.input)]
    /\ UNCHANGED <<impl, entries, nextID, rows>>

\* --------------------------------------------------------- configuration

DefaultInputFormat == "02-01-2006"
DefaultDisplayFormat == "02-01-2006"
DBFormat == "2006-01-02"
DefaultUnit == "kg"

\* var formatMappings: the supported format names and their layouts
FormatNames ==
    {"dd-mm-yyyy", "mm-dd-yyyy", "yyyy-mm-dd",
     "dd/mm/yyyy", "mm/dd/yyyy", "yyyy/mm/dd"}

formatMappings ==
    [name \in FormatNames |->
        CASE name = "dd-mm-yyyy" -> "02-01-2006"
          [] name = "mm-dd-yyyy" -> "01-02-2006"
          [] name = "yyyy-mm-dd" -> "2006-01-02"
          [] name = "dd/mm/yyyy" -> "02/01/2006"
          [] name = "mm/dd/yyyy" -> "01/02/2006"
          [] name = "yyyy/mm/dd" -> "2006/01/02"]

\* what an environment variable can hold: "" when unset, a supported format
\* name, a format name in capitals, a layout, a unit, or other text
EnvValues ==
    FormatNames \cup {"", "DD-MM-YYYY", "2006/01/02", "kg", "lbs", "KG", "stone"}

\* the environments GetAppConfigFromEnv reads
Environments ==
    [{"DATE_INPUT_FORMAT", "DATE_DISPLAY_FORMAT", "DEFAULT_UNIT"} -> EnvValues]

\* a variant that takes any unit that is set
UnitSupportedAny(unit) == TRUE

\* unit == "kg" || unit == "lbs"
UnitSupported(unit) == unit = "kg" \/ unit = "lbs"

\* the layout a format variable selects, else the default dflt
FormatFromEnv(value, dflt) ==
    IF value # "" /\ value \in DOMAIN formatMappings
    THEN formatMappings[value] ELSE dflt

\* GetAppConfigFromEnv
GetAppConfigFromEnv(getEnv) ==
    LET unit == getEnv["DEFAULT_UNIT"] IN
    [DateFormat |->
        [InputFormat |-> FormatFromEnv(getEnv["DATE_INPUT_FORMAT"],
                                       DefaultInputFormat),
         DisplayFormat |-> FormatFromEnv(getEnv["DATE_DISPLAY_FORMAT"],
                                         DefaultDisplayFormat),
         DBFormat |-> DBFormat],
     DefaultUnit |-> IF unit # "" /\ UnitSupported(unit)
                     THEN unit ELSE DefaultUnit]

\* the environment a caller is about to read the configuration from
InitConfig ==
    /\ impl = "db"
    /\ entries = <<>>
    /\ nextID = 1
    /\ rows = <<>>
    /\ last \in {[op |-> "env", env |-> e] : e \in Environments}

\* the call of GetAppConfigFromEnv on that environment
GetAppConfig ==
    /\ last.op = "env"
    /\ last' = [op |-> "GetAppConfigFromEnv", env |-> last.env,
                config |-> GetAppConfigFromEnv(last.env)]
    /\ UNCHANGED <<impl, entries, nextID, rows>>

\* ------------------------------------------------------- delete command

\* args[0] of the delete command: the decimal text of an id, or text that
\* is no number
DeleteCmdArgs ==
    {[decimal |-> TRUE, id |-> i] : i \in ListIDs \cup {-1}} \cup
    {[decimal |-> FALSE, id |-> 0]}

\* strconv.ParseInt(idStr, 10, 64)
ParseInt(idStr) ==
    IF idStr.decimal THEN [id |-> idStr.id, err |-> ErrNil]
    ELSE [id |-> 0, err |-> "invalid syntax"]

\* the lines typed at the confirmation prompt, as their words; <<>> is an
\* empty line or the end of the input
AnswerLines ==
    {<<>>, <<"y">>, <<"Y">>, <<"yes">>, <<"Yes">>, <<"n">>, <<"YES">>,
     <<"no", "yes">>, <<"yes", "please">>}

ErrNotNumber == "invalid ID: must be a number"
ErrNotPositive == "ID must be a positive number"

\* fmt.Scanln(&response): the first word of the line, "" when there is none
Scanln(line) == IF line = <<>> THEN "" ELSE line[1]

\* a variant that takes every answer for a yes
IsYesAlways(response) == TRUE

\* !(response != "y" && response != "Y" && response != "yes" &&
\*   response != "Yes")
IsYes(response) == response \in {"y", "Y", "yes", "Yes"}

\* a run of the delete command: the id parsed and the flags, where it stands
\* ("prompt": waiting in Scanln, "done": returned), what it did so far in
\* order (the GetWeight call, the prompt, the DeleteWeight call), the
\* answer read and the error returned
DeleteRun(arg, confirm, force, pc, events, response, err) ==
    [op |-> "runDelete", arg |-> arg, confirm |-> confirm, force |-> force,
     pc |-> pc, events |-> events, response |-> response, err |-> err]

\* no run of the delete or update command is waiting at its prompt
NoPrompt == last.op \in {"runDelete", "runUpdate"} => last.pc = "done"

\* runDeleteInternal from the DeleteWeight call to its return
DeleteConfirmed(run) ==
    LET r == DBDeleteWeightResult(run.arg) IN
    /\ rows' = r.rows
    /\ last' = [run EXCEPT !.pc = "done",
                           !.events = Append(run.events, "DeleteWeight"),
                           !.err = r.err]

\* runDeleteInternal from its start to the prompt, or to its return when it
\* does not prompt
runDeleteInternal(arg, confirm, force) ==
    /\ impl = "db"
    /\ NoPrompt
    /\ LET id == ParseInt(arg).id
           run == DeleteRun(id, confirm, force, "done", <<>>, "", ErrNil) IN
        IF ParseInt(arg).err # ErrNil
        THEN last' = [run EXCEPT !.err = ErrNotNumber] /\ UNCHANGED rows
        ELSE IF id <= 0
        THEN last' = [run EXCEPT !.err = ErrNotPositive] /\ UNCHANGED rows
        ELSE LET existing == DBGetResult(rows, id)
                 checked == [run EXCEPT !.events = <<"GetWeight">>]
             IN  IF existing.err # ErrNil
                 THEN /\ last' = [checked EXCEPT !.err = existing.err]
                      /\ UNCHANGED rows
                 ELSE IF ~confirm /\ ~force
                 THEN /\ last' = [checked EXCEPT
                                    !.pc = "prompt",
                                    !.events = <<"GetWeight", "prompt">>]
                      /\ UNCHANGED rows
                 ELSE DeleteConfirmed(checked)
    /\ UNCHANGED <<impl, entries, nextID>>

\* runDeleteInternal from the line read at the prompt to its return
runDeleteAnswer(line) ==
    /\ last.op = "runDelete"
    /\ last.pc = "prompt"
    /\ LET answered == [last EXCEPT !.response = Scanln(line)] IN
        IF ~IsYes(Scanln(line))
        THEN last' = [answered EXCEPT !.pc = "done"] /\ UNCHANGED rows
        ELSE DeleteConfirmed(answered)
    /\ UNCHANGED <<impl, entries, nextID>>

\* ------------------------------------------------------- update command

\* the entries in the table when the update command runs: valid, dated or
\* not, with or without a note
UpdateCmdAddArgs ==
    {WeightEntry(0, 1, d, "kg", n, "") : d \in {0, MaxTick}, n \in Notes}

\* the flags of the update command; Changed tells whether the flag was given
\* on the command line.  --date carries no text, text that ParseDate
\* rejects, or the text of a day
AllUpdateCmdFlags ==
    [weight : {[Changed |-> FALSE, Value |-> 0], [Changed |-> TRUE, Value |-> 0],
               [Changed |-> TRUE, Value |-> 2]},
     date : {[Changed |-> FALSE, Text |-> "", Day |-> 0],
             [Changed |-> TRUE, Text |-> "", Day |-> 0],
             [Changed |-> TRUE, Text |-> "bad", Day |-> 0],
             [Changed |-> TRUE, Text |-> "day", Day |-> 1]},
     unit : {NotGiven, "", "lbs", "KG"},
     note : {NotGiven, "", "m"}]

\* the flags that were given on the command line
GivenFlags(flags) ==
    {f \in {"weight", "date"} : flags[f].Changed} \cup
    {f \in {"unit", "note"} : flags[f] # NotGiven}

\* the command lines tried: at most MaxSet flags given
UpdateCmdFlags ==
    {flags \in AllUpdateCmdFlags : Cardinality(GivenFlags(flags)) <= MaxSet}

\* args[0] of the update command
UpdateCmdArgs == {a \in DeleteCmdArgs : a.id >= 0}

ErrWeightFlag == "weight must be greater than 0"
ErrDateFlag == "invalid date format"
ErrNoFields == "no fields to update"

\* ParseDate: time.Parse with the configured layout gives midnight of the day
ParseDate(date) ==
    IF date.Text = "day" THEN [date |-> ParseDBDate(date.Day), err |-> ErrNil]
    ELSE [date |-> 0, err |-> ErrDateFlag]

\* a run of the update command: the id parsed and the flags, where it stands
\* ("prompt": waiting in Scanln, "done": returned), the entry it built, the
\* answer read, the error returned and the entry UpdateWeight returned
UpdateRun(arg, flags, pc, updatedEntry, err) ==
    [op |-> "runUpdate", arg |-> arg, flags |-> flags, pc |-> pc,
     updatedEntry |-> updatedEntry, response |-> "", err |-> err,
     entry |-> ZeroEntry]

\* updatedEntry after the four flag blocks
UpdatedEntry(existingEntry, flags) ==
    [existingEntry EXCEPT
        !.Weight = IF flags.weight.Changed THEN flags.weight.Value ELSE @,
        !.Date = IF flags.date.Changed /\ flags.date.Text # ""
                 THEN ParseDate(flags.date).date ELSE @,
        !.Unit = IF flags.unit # NotGiven /\ flags.unit # ""
                 THEN flags.unit ELSE @,
        !.Note = IF flags.note # NotGiven THEN flags.note ELSE @]

\* fieldsUpdated after the four flag blocks
FieldsUpdated(flags) ==
    \/ flags.weight.Changed
    \/ flags.date.Changed /\ flags.date.Text # ""
    \/ flags.unit # NotGiven /\ flags.unit # ""
    \/ flags.note # NotGiven

\* runUpdateInternal from its start to the prompt, or to the error it
\* returns before
runUpdateInternal(arg, flags) ==
    /\ impl = "db"
    /\ NoPrompt
    /\ LET id == ParseInt(arg).id
           failed(err) == UpdateRun(id, flags, "done", ZeroEntry, err)
           existing == DBGetResult(rows, id)
           updatedEntry == UpdatedEntry(existing.entry, flags)
       IN  last' =
             IF ParseInt(arg).err # ErrNil THEN failed(ErrNotNumber)
             ELSE IF id <= 0 THEN failed(ErrNotPositive)
             ELSE IF existing.err # ErrNil THEN failed(existing.err)
             ELSE IF flags.weight.Changed /\ flags.weight.Value <= 0
             THEN failed(ErrWeightFlag)
             ELSE IF /\ flags.date.Changed /\ flags.date.Text # ""
                     /\ ParseDate(flags.date).err # ErrNil
             THEN failed(ErrDateFlag)
             ELSE IF ~FieldsUpdated(flags) THEN failed(ErrNoFields)
             ELSE IF ValidateWeightEntry(updatedEntry) # ErrNil
             THEN failed(ValidateWeightEntry(updatedEntry))
             ELSE UpdateRun(id, flags, "prompt", updatedEntry, ErrNil)
    /\ UNCHANGED <<impl, entries, nextID, rows>>

\* runUpdateInternal from the line read at the prompt to its return
runUpdateAnswer(line) ==
    /\ last.op = "runUpdate"
    /\ last.pc = "prompt"
    /\ LET answered == [last EXCEPT !.response = Scanln(line), !.pc = "done"]
           r == DBUpdateWeightResult(last.updatedEntry)
       IN  IF ~IsYes(Scanln(line))
           THEN last' = answered /\ UNCHANGED rows
           ELSE /\ rows' = r.rows
                /\ last' = [answered EXCEPT !.err = r.err, !.entry = r.entry]
    /\ UNCHANGED <<impl, entries, nextID>>

\* ----------------------------------------------------------------- charts

Abs(x) == IF x < 0 THEN -x ELSE x

RECURSIVE Pow2(_)
Pow2(n) == IF n = 0 THEN 1 ELSE 2 * Pow2(n - 1)

\* the distance between neighbouring floats at the magnitude of x
RECURSIVE Spacing(_)
Spacing(x) ==
    IF Abs(x) < Pow2(MantissaBits) THEN 1 ELSE 2 * Spacing(Abs(x) \div 2)

\* the float nearest to x (a count of tenths), ties to the even mantissa:
\* every float64 operation of the chart code rounds its result like this
RoundFloat(x) ==
    LET s == Spacing(x)
        q == x \div s
        r == x % s
    IN  IF 2 * r < s THEN q * s
        ELSE IF 2 * r > s THEN (q + 1) * s
        ELSE IF q % 2 = 0 THEN q * s ELSE (q + 1) * s

\* entry.Weight as a float, in tenths
Tenths(w) == RoundFloat(10 * w)

\* a weight large enough for its float neighbours to lie further apart than
\* twice the padding of a constant series
HugeWeight == Pow2(MantissaBits - 2)

\* the weights of charted entries
ChartWeights == {1, 6, 7, HugeWeight}

\* the weight patterns of long charted slices: repeated along the slice
ChartPatterns ==
    UNION {[1..k -> ChartWeights] : k \in 1..3}

\* the slices the chart functions are called with: every short slice of
\* StatsArgs, and slices of up to MaxChartLen entries with a repeating weight
\* pattern and distinct dates given latest first
ChartArgs ==
    StatsArgs \cup
    {[i \in 1..n |-> WeightEntry(i, p[((i - 1) % Len(p)) + 1], n - i,
                                 "kg", "", "")] :
        n \in 1..MaxChartLen, p \in ChartPatterns}

\* GraphOutputType values, and one that is none of the three
OutputTypes == {"terminal", "html", "png", "svg"}

\* what the file system does to generateHTMLChart: MkdirAll or Create fails,
\* Render fails, or all three succeed
IOOutcomes == {"nocreate", "norender", "ok"}

ErrNoWeightEntries == "no weight entries to display"
ErrNoEntries == "no entries to display"
ErrNoValidEntries == "no valid entries with proper dates"
ErrUnsupported == "unsupported output type"
ErrIO == "io"

\* what a chart function returns and emits: the error and output path, the
\* grid printed on the terminal (its width and the cells holding a dot, as
\* <<row, column>>), the series handed to the renderer, whether the output
\* file was created, and the caller's slice after the call
ChartResult(err, path, printed, width, dots, xs, ys, created, slice) ==
    [err |-> err, path |-> path, printed |-> printed, chartWidth |-> width,
     dots |-> dots, xAxisData |-> xs, yAxisData |-> ys, created |-> created,
     entries |-> slice]

\* a variant of the length check that takes no slice for empty
NoEntriesNever(s) == FALSE

\* len(entries) == 0
NoEntries(s) == Len(s) = 0

\* a result that emitted nothing
NoChart(err, slice) ==
    ChartResult(err, "", FALSE, 0, {}, <<>>, <<>>, FALSE, slice)

\* sort.Slice(entries, Date.Before): slices this short are insertion-sorted
RECURSIVE SortByDate(_)
SortByDate(s) ==
    IF s = <<>> THEN <<>>
    ELSE LET front == SortByDate(SubSeq(s, 1, Len(s) - 1))
             e == s[Len(s)]
         IN  SelectSeq(front, LAMBDA x : x.Date <= e.Date) \o <<e>> \o
             SelectSeq(front, LAMBDA x : x.Date > e.Date)

\* the smallest and the largest weight of the slice
RECURSIVE MinWeightOf(_)
MinWeightOf(s) ==
    IF Len(s) = 1 THEN Tenths(s[1].Weight)
    ELSE LET m == MinWeightOf(Tail(s))
         IN  IF Tenths(s[1].Weight) <= m THEN Tenths(s[1].Weight) ELSE m

RECURSIVE MaxWeightOf(_)
MaxWeightOf(s) ==
    IF Len(s) = 1 THEN Tenths(s[1].Weight)
    ELSE LET m == MaxWeightOf(Tail(s))
         IN  IF Tenths(s[1].Weight) >= m THEN Tenths(s[1].Weight) ELSE m

\* if weightRange == 0 { weightRange = 1 }
RangeOrOne(weightRange) == IF weightRange = 0 THEN 10 ELSE weightRange

\* the padded scale of the grid: minWeight, maxWeight and weightRange, the
\* padding weightRange * 0.1 taken to the nearest tenth
GridScale(s) ==
    LET weightRange == RangeOrOne(RoundFloat(MaxWeightOf(s) - MinWeightOf(s)))
        padding == RoundFloat((2 * weightRange + 10) \div 20)
        minWeight == RoundFloat(MinWeightOf(s) - padding)
        maxWeight == RoundFloat(MaxWeightOf(s) + padding)
    IN  [minWeight |-> minWeight, maxWeight |-> maxWeight,
         weightRange |-> RoundFloat(maxWeight - minWeight)]

\* int((maxWeight - entry.Weight) / weightRange * float64(chartHeight-1)):
\* the values the conversion can give.  Over a zero range the operand is NaN
\* or an infinity, whose conversion is implementation-dependent: -1 and
\* chartHeight stand for the values outside the grid.  A product that is the
\* whole number k in exact arithmetic may come out of the rounded division
\* just under k.
GridRows(w, scale) ==
    IF scale.weightRange = 0 THEN -1..chartHeight
    ELSE LET num == (scale.maxWeight - Tenths(w)) * (chartHeight - 1)
             den == scale.weightRange
         IN  IF num <= 0 THEN {-((-num) \div den)}
             ELSE IF num % den = 0 THEN {num \div den, num \div den - 1}
             ELSE {num \div den}

\* the ways the conversions of one call can come out, one row per weight
RECURSIVE RowChoices(_, _)
RowChoices(ws, scale) ==
    IF ws = {} THEN {<<>>}
    ELSE LET w == CHOOSE v \in ws : TRUE
         IN  {[v \in ws |-> IF v = w THEN y ELSE g[v]] :
                 y \in GridRows(w, scale), g \in RowChoices(ws \ {w}, scale)}

\* chartWidth := len(entries); if chartWidth > 20 { chartWidth = 20 }
ChartWidth(n) == IF n > MaxChartWidth THEN MaxChartWidth ELSE n

\* the weights of the entries the plot loop reaches
PlottedWeights(s) == {s[i].Weight : i \in 1..ChartWidth(Len(s))}

\* generateASCIIChart, with the rows its conversions give
generateASCIIChart(s, rowOf) ==
    IF NoEntries(s) THEN NoChart(ErrNoEntries, s)
    ELSE LET chartWidth == ChartWidth(Len(s))
         IN  ChartResult(ErrNil, "", TRUE, chartWidth,
                 {<<rowOf[s[i + 1].Weight], i>> :
                     i \in {j \in 0..(chartWidth - 1) :
                              /\ rowOf[s[j + 1].Weight] >= 0
                              /\ rowOf[s[j + 1].Weight] < chartHeight}},
                 <<>>, <<>>, FALSE, s)

\* a variant that measures from the zero time
DaysFromZero(date, startTime) ==
    (20 * date + TicksPerDay) \div (2 * TicksPerDay)

\* the x-coordinate fmt.Sprintf("%.1f", Sub(startTime).Hours() / 24), in
\* tenths of a day
DaysFromStart(date, startTime) ==
    (20 * (date - startTime) + TicksPerDay) \div (2 * TicksPerDay)

\* generateHTMLChart, under what the file system does
generateHTMLChart(s, io) ==
    IF NoEntries(s) THEN NoChart(ErrNoEntries, s)
    ELSE LET hasProperDates == \E i \in 1..Len(s) : HasValidDate(s[i])
             validEntries == SortByDate(SelectSeq(s, HasValidDate))
             xAxisData ==
                 IF ~hasProperDates
                 THEN [i \in 1..Len(s) |-> [kind |-> "Entry", value |-> i]]
                 ELSE [i \in 1..Len(validEntries) |->
                         [kind |-> "days",
                          value |-> DaysFromStart(validEntries[i].Date,
                                                  validEntries[1].Date)]]
             yAxisData ==
                 IF ~hasProperDates THEN [i \in 1..Len(s) |-> s[i].Weight]
                 ELSE [i \in 1..Len(validEntries) |-> validEntries[i].Weight]
         IN  IF hasProperDates /\ Len(validEntries) = 0
             THEN NoChart(ErrNoValidEntries, s)
             ELSE IF io = "nocreate" THEN NoChart(ErrIO, s)
             ELSE IF io = "norender"
             THEN ChartResult(ErrIO, "", FALSE, 0, {}, <<>>, <<>>, TRUE, s)
             ELSE ChartResult(ErrNil, "charts/file", FALSE, 0, {},
                              xAxisData, yAxisData, TRUE, s)

\* generatePNGChart
generatePNGChart(s, io) == generateHTMLChart(s, io)

\* GenerateWeightChart: sorts the caller's slice in place, then dispatches
GenerateWeightChart(s, outputType, rowOf, io) ==
    IF NoEntries(s) THEN NoChart(ErrNoWeightEntries, s)
    ELSE LET sorted == SortByDate(s)
         IN  CASE outputType = "terminal" -> generateASCIIChart(sorted, rowOf)
               [] outputType = "html" -> generateHTMLChart(sorted, io)
               [] outputType = "png" -> generatePNGChart(sorted, io)
               [] OTHER -> NoChart(ErrUnsupported, sorted)

\* the slice of entries a caller is about to pass to a chart function
InitChart ==
    /\ impl = "db"
    /\ entries = <<>>
    /\ nextID = 1
    /\ rows = <<>>
    /\ last \in {[op |-> "chartInput", input |-> s] : s \in ChartArgs}

ChartCall(op, outputType, result) ==
    [op |-> op, input |-> last.input, outputType |-> outputType,
     chart |-> result]

\* a call of GenerateWeightChart on that slice
WeightChart ==
    /\ last.op = "chartInput"
    /\ \E outputType \in OutputTypes, io \in IOOutcomes :
        \E rowOf \in RowChoices(PlottedWeights(last.input),
                                IF last.input = <<>> THEN <<>>
                                ELSE GridScale(last.input)) :
            last' = ChartCall("GenerateWeightChart", outputType,
                      GenerateWeightChart(last.input, outputType, rowOf, io))
    /\ UNCHANGED <<impl, entries, nextID, rows>>

\* a call of generateASCIIChart on that slice
ASCIIChart ==
    /\ last.op = "chartInput"
    /\ \E outputType \in OutputTypes :
        \E rowOf \in RowChoices(PlottedWeights(last.input),
                                IF last.input = <<>> THEN <<>>
                                ELSE GridScale(last.input)) :
            last' = ChartCall("generateASCIIChart", outputType,
                              generateASCIIChart(last.input, rowOf))
    /\ UNCHANGED <<impl, entries, nextID, rows>>

\* a call of generateHTMLChart on that slice
HTMLChart ==
    /\ last.op = "chartInput"
    /\ \E outputType \in OutputTypes, io \in IOOutcomes :
            last' = ChartCall("generateHTMLChart", outputType,
                              generateHTMLChart(last.input, io))
    /\ UNCHANGED <<impl, entries, nextID, rows>>

\* a call of ValidateWeightEntry on its own
Validate(entry) ==
    /\ last' = Call("validate", entry, ValidateWeightEntry(entry), ZeroEntry)
    /\ UNCHANGED <<impl, entries, nextID, rows>>

\* the result of the list command as far as the store call
RunListCall(flags, options, err, result) ==
    [op |-> "runList", flags |-> flags, arg |-> ZeroEntry, err |-> err,
     entry |-> ZeroEntry, opts |-> options, list |-> result]

ErrInvalidSort == "InvalidSortColumn"

\* the defaults of the --sort and --desc flags
SortFlagDefault == "date"

\* a variant with ascending as the default direction
DescFlagDefaultFalse == FALSE

DescFlagDefault == TRUE

\* cmd.Flags().GetString / GetBool: the value given, else the flag's default
GetString(flag, default) == IF flag = NotGiven THEN default ELSE flag

GetBool(flag, default) == IF flag = NotGiven THEN default ELSE flag = "true"

\* runListInternal up to the store call, on a DBStore: read the flags, reject
\* a sort column other than date and weight, build the options, ListWeights
runListInternal(flags) ==
    /\ impl = "db"
    /\ LET sortColumn == GetString(flags.sort, SortFlagDefault)
           sortDesc == GetBool(flags.desc, DescFlagDefault)
           options == ListOptions(NoDate, NoDate, 0, sortColumn, sortDesc, "") IN
        last' = IF sortColumn # "date" /\ sortColumn # "weight"
                THEN RunListCall(flags, ZeroOptions, ErrInvalidSort, <<>>)
                ELSE RunListCall(flags, options, ErrNil, DBListResult(rows, options))
    /\ UNCHANGED <<impl, entries, nextID, rows>>

\* ---------------------------------------------------------------- behaviours

\* the id the constructed store assigns to the next added entry
NextAssignedID == IF impl = "mock" THEN nextID ELSE NextRowID

Next ==
    \/ \E e \in AddArgs : NextAssignedID <= MaxID /\ MockAddWeight(e)
    \/ \E id \in IDs : MockGetWeight(id)
    \/ \E id \in IDs : MockDeleteWeight(id)
    \/ \E e \in UpdateArgs : MockUpdateWeight(e)
    \/ \E e \in AddArgs : NextAssignedID <= MaxID /\ DBAddWeight(e)
    \/ \E id \in IDs : DBGetWeight(id)
    \/ \E id \in IDs : DBDeleteWeight(id)
    \/ \E e \in UpdateArgs : DBUpdateWeight(e)
    \/ \E e \in AddArgs : NextAssignedID <= MaxID /\ runAddInternal(e)

Spec == Init /\ [][Next]_vars

\* several entries that differ in the fields ListWeights reads
NextList ==
    \/ \E e \in ListAddArgs : NextAssignedID <= MaxListID /\ MockAddWeight(e)
    \/ \E id \in ListIDs : MockGetWeight(id)
    \/ \E id \in ListIDs : MockDeleteWeight(id)
    \/ \E e \in ListUpdateArgs : MockUpdateWeight(e)
    \/ \E o \in ListArgs : MockListWeights(o)
    \/ \E e \in ListAddArgs : NextAssignedID <= MaxListID /\ DBAddWeight(e)
    \/ \E id \in ListIDs : DBGetWeight(id)
    \/ \E id \in ListIDs : DBDeleteWeight(id)
    \/ \E e \in ListUpdateArgs : DBUpdateWeight(e)
    \/ \E o \in ListArgs : DBListWeights(o)

SpecList == Init /\ [][NextList]_vars

\* up to MaxSortID entries under add, delete, list and the list command
NextSort ==
    \/ \E e \in SortAddArgs : NextAssignedID <= MaxSortID /\ MockAddWeight(e)
    \/ \E id \in SortIDs : MockDeleteWeight(id)
    \/ \E o \in SortArgs : MockListWeights(o)
    \/ \E e \in SortAddArgs : NextAssignedID <= MaxSortID /\ DBAddWeight(e)
    \/ \E id \in SortIDs : DBDeleteWeight(id)
    \/ \E o \in SortArgs : DBListWeights(o)
    \/ \E f \in ListFlags : runListInternal(f)

SpecSort == Init /\ [][NextSort]_vars

\* the same sequence of calls applied to a fresh MockStore and a fresh DBStore
NextBoth ==
    \/ \E e \in ListAddArgs :
            nextID <= MaxID /\ NextRowID <= MaxID /\ BothAddWeight(e)
    \/ \E id \in IDs : BothGetWeight(id)
    \/ \E o \in SortArgs : BothListWeights(o)
    \/ \E e \in BothUpdateArgs : BothUpdateWeight(e)
    \/ \E id \in IDs : BothDeleteWeight(id)

SpecBoth == InitBoth /\ [][NextBoth]_vars

\* ValidateWeightEntry applied to any entry
NextValidate == \E e \in ValidateArgs : Validate(e)

SpecValidate == Init /\ [][NextValidate]_vars

\* calculateStatistics applied to any slice of entries
NextStats == Statistics

SpecStats == InitStats /\ [][NextStats]_vars

\* up to MaxListID rows under add and the delete command; no other call
\* runs while the command waits at its prompt
NextDelete ==
    \/ \E e \in ListAddArgs :
            NoPrompt /\ NextRowID <= MaxListID /\ DBAddWeight(e)
    \/ \E arg \in DeleteCmdArgs, confirm \in BOOLEAN, force \in BOOLEAN :
            runDeleteInternal(arg, confirm, force)
    \/ \E line \in AnswerLines : runDeleteAnswer(line)

SpecDelete == Init /\ [][NextDelete]_vars

\* one row under add and the update command; no other call runs while the
\* command waits at its prompt
NextUpdate ==
    \/ \E e \in UpdateCmdAddArgs :
            NoPrompt /\ NextRowID <= MaxID /\ DBAddWeight(e)
    \/ \E arg \in UpdateCmdArgs, flags \in UpdateCmdFlags :
            runUpdateInternal(arg, flags)
    \/ \E line \in AnswerLines : runUpdateAnswer(line)

SpecUpdate == Init /\ [][NextUpdate]_vars

\* GetAppConfigFromEnv applied to any environment
NextConfig == GetAppConfig

SpecConfig == InitConfig /\ [][NextConfig]_vars

\* each chart function applied to any slice of entries
NextChart == WeightChart \/ ASCIIChart \/ HTMLChart

SpecChart == InitChart /\ [][NextChart]_vars

\* ------------------------------------------------------------- properties

\* what GetWeight of the constructed store returns in the current state
GetResult(id) ==
    IF impl = "mock" THEN MockGetResult(entries, id) ELSE DBGetResult(rows, id)

\* the entries of the constructed store, as the store hands them out
StoreEntries ==
    IF impl = "mock" THEN entries
    ELSE [i \in 1..Len(rows) |-> sqlcToWeightEntry(rows[i])]

\* the validity condition of the specification, written out
StoredOK(e) == e.Weight > 0 /\ e.Unit \in {"", "kg", "lbs"}

\* a call that succeeded in adding an entry, directly or through the command
AddedOK(call) == call.op \in {"add", "runAdd"} /\ call.err = ErrNil

\* C1: after add returns r, get(r.ID) returns an entry equal to r in every
\* field at any later point before an update or delete of r.ID. Step by step:
\* add returns an id that was free and r is then what get(r.ID) returns; a
\* step that is not an update or delete of a stored id leaves what get of
\* that id returns; and a get call returns exactly that.
C1_AddThenGet ==
    [][\A id \in IDs :
        /\ (AddedOK(last') /\ last'.entry.ID = id) =>
                /\ GetResult(id).err = ErrNotFound
                /\ GetResult(id)' = [err |-> ErrNil, entry |-> last'.entry]
        /\ (/\ GetResult(id).err = ErrNil
            /\ ~(last'.op \in {"update", "delete"} /\ last'.arg.ID = id))
           => GetResult(id)' = GetResult(id)
        /\ (last'.op = "get" /\ last'.arg.ID = id) =>
                /\ last'.err = GetResult(id)'.err
                /\ last'.entry = GetResult(id)'.entry
      ]_vars

\* a get of a stored entry that carries a unit, a note and a date
C1_Witness ==
    /\ last.op = "get" /\ last.err = ErrNil
    /\ last.entry = GetResult(last.arg.ID).entry
    /\ last.entry.Unit = "lbs" /\ last.entry.Note = "n" /\ last.entry.Date # 0

\* C2 as stated: in every reachable state of a Store every stored entry has
\* weight > 0 and unit in {"", "kg", "lbs"}
C2_EveryStoredEntryValid ==
    \A i \in 1..Len(StoreEntries) : StoredOK(StoreEntries[i])

\* C2 amended: an entry stored through the add command, which validates
\* before it calls Store.AddWeight, is valid; a rejected add command stores
\* nothing; and get, update and delete leave every valid stored entry valid
C2_ValidatedPathValid ==
    [][/\ \A id \in IDs :
            (last'.op = "runAdd" /\ last'.err = ErrNil /\ last'.entry.ID = id) =>
                /\ GetResult(id)'.err = ErrNil
                /\ StoredOK(GetResult(id)'.entry)
       /\ (last'.op = "runAdd" /\ last'.err # ErrNil) =>
            /\ ~StoredOK(last'.arg)
            /\ UNCHANGED <<entries, nextID, rows>>
       /\ last'.op \in {"get", "update", "delete"} =>
            \A id \in IDs :
                (/\ GetResult(id).err = ErrNil
                 /\ StoredOK(GetResult(id).entry)
                 /\ GetResult(id)'.err = ErrNil)
                => StoredOK(GetResult(id)'.entry)
      ]_vars

\* an update that changed the unit of a stored entry and left it valid
C2_Witness ==
    /\ last.op = "update" /\ last.err = ErrNil
    /\ last.arg.Unit = "lbs" /\ last.arg.Weight = 2
    /\ GetResult(last.arg.ID).err = ErrNil
    /\ StoredOK(GetResult(last.arg.ID).entry)

\* C3: for a stored entry x, an update with x.ID and exactly one of weight,
\* date, unit, note, owner set (to a value the merged entry is valid with)
\* succeeds, and the returned and stored entry differs from x only in that
\* field
C3_OneFieldUpdate ==
    [][\A id \in IDs :
        (/\ last'.op = "update"
         /\ id > 0 /\ last'.arg.ID = id
         /\ GetResult(id).err = ErrNil
         /\ Cardinality(SetFields(last'.arg)) = 1
         /\ StoredOK(GetResult(id).entry)
         /\ StoredOK(MergeEntry(GetResult(id).entry, last'.arg)))
        => /\ last'.err = ErrNil
           /\ last'.entry = GetResult(id)'.entry
           /\ last'.entry.ID = id
           /\ \A f \in {"Weight", "Date", "Unit", "Note", "UserID"} \ SetFields(last'.arg) :
                 last'.entry[f] = GetResult(id).entry[f]
      ]_vars

\* C4: an update of a stored entry is rejected with a validation error
\* exactly when the merged entry (the stored entry overlaid with the set
\* fields) is invalid
C4_RejectedIffMergedInvalid ==
    [][(/\ last'.op = "update"
        /\ last'.arg.ID > 0
        /\ GetResult(last'.arg.ID).err = ErrNil)
       => (last'.err \in {ErrInvalidWeight, ErrInvalidUnit}
           <=> ~StoredOK(MergeEntry(GetResult(last'.arg.ID).entry, last'.arg)))
      ]_vars

\* C5: an update that returns an error leaves the store as it was: no entry
\* added or removed, no field of a stored entry changed
C5_FailedUpdateNoChange ==
    [][(last'.op = "update" /\ last'.err # ErrNil)
       => UNCHANGED <<entries, nextID, rows>>]_vars

\* a rejected update of a stored entry
C5_Witness ==
    /\ last.op = "update" /\ last.err = ErrInvalidUnit
    /\ GetResult(last.arg.ID).err = ErrNil

\* C6: after delete(id) returns success, the next call, when it is get(id),
\* returns the not-found error
C6_DeleteThenGet ==
    [][(/\ last.op = "delete" /\ last.err = ErrNil
        /\ last'.op = "get" /\ last'.arg.ID = last.arg.ID)
       => last'.err = ErrNotFound]_vars

\* a successful delete whose id get no longer finds
C6_Witness ==
    /\ last.op = "delete" /\ last.err = ErrNil
    /\ GetResult(last.arg.ID).err = ErrNotFound

\* C7: get, update and delete with a positive id that is not in the store
\* return the not-found error and leave the store unchanged
C7_MissingIDNotFound ==
    [][(/\ last'.op \in {"get", "update", "delete"}
        /\ last'.arg.ID > 0
        /\ GetResult(last'.arg.ID).err = ErrNotFound)
       => /\ last'.err = ErrNotFound
          /\ UNCHANGED <<entries, nextID, rows>>]_vars

\* the ids of the stored entries, in store order
IdSeq == [i \in 1..Len(StoreEntries) |-> StoreEntries[i].ID]

\* C8: the ids of the stored entries are pairwise distinct, and no update or
\* delete changes the id of an entry that stays in the store
C8_IdsStable ==
    [][/\ \A i, j \in 1..Len(IdSeq') : i # j => IdSeq'[i] # IdSeq'[j]
       /\ last'.op = "update" => IdSeq' = IdSeq
       /\ last'.op = "delete" =>
            IdSeq' = SelectSeq(IdSeq, LAMBDA x : x # last'.arg.ID \/ last'.err # ErrNil)
      ]_vars

\* two stored entries, the second added after a delete, and an update done
C8_Witness ==
    /\ impl = "db" /\ Len(IdSeq) = 2
    /\ last.op = "update" /\ last.err = ErrNil /\ last.arg.ID = 2

\* the number of positions of s that hold x
Count(s, x) == Cardinality({i \in 1..Len(s) : s[i] = x})

\* C9: list with no date bound and no limit returns each stored entry
\* exactly once when no unit is asked for, and with a unit filter u exactly
\* the stored entries whose unit is u, each once
C9_ListIsTheStore ==
    (/\ last.op = "list"
     /\ last.opts.FromDate = NoDate /\ last.opts.ToDate = NoDate
     /\ last.opts.Limit = 0)
    => LET Wanted(e) == last.opts.Unit = "" \/ e.Unit = last.opts.Unit IN
       /\ \A i \in 1..Len(StoreEntries) :
            Count(last.list, StoreEntries[i])
                = IF Wanted(StoreEntries[i]) THEN 1 ELSE 0
       /\ \A k \in 1..Len(last.list) : Count(StoreEntries, last.list[k]) = 1

\* a list with only a unit filter that kept one stored entry and left one out
C9_Witness ==
    /\ last.op = "list"
    /\ last.opts = [ZeroOptions EXCEPT !.Unit = "kg"]
    /\ Len(StoreEntries) = 2 /\ Len(last.list) = 1

\* what ListWeights of the constructed store returns in the current state
ListResult(options) ==
    IF impl = "mock" THEN MockListResult(entries, options)
    ELSE DBListResult(rows, options)

\* C10: with a limit n > 0, list returns the first n entries of what the
\* same options with limit 0 return
C10_LimitIsPrefix ==
    (last.op = "list" /\ last.opts.Limit > 0)
    => last.list = Take(ListResult([last.opts EXCEPT !.Limit = 0]), last.opts.Limit)

\* C11: with a from and/or to bound (and no limit) list returns exactly the
\* stored entries of the requested unit whose date is a real date d with
\* from <= d when from is set and d <= to when to is set, each once; an entry
\* with the zero date is never returned while a date bound is set
C11_DateFilterExact ==
    (/\ last.op = "list"
     /\ (last.opts.FromDate # NoDate \/ last.opts.ToDate # NoDate)
     /\ last.opts.Limit = 0)
    => LET Wanted(e) ==
               /\ ~IsZero(e.Date)
               /\ (last.opts.FromDate = NoDate \/ last.opts.FromDate <= e.Date)
               /\ (last.opts.ToDate = NoDate \/ e.Date <= last.opts.ToDate)
               /\ (last.opts.Unit = "" \/ e.Unit = last.opts.Unit) IN
       /\ \A i \in 1..Len(StoreEntries) :
            Count(last.list, StoreEntries[i])
                = IF Wanted(StoreEntries[i]) THEN 1 ELSE 0
       /\ \A k \in 1..Len(last.list) : Count(StoreEntries, last.list[k]) = 1

\* C17: delete with id <= 0 returns the invalid-id error and leaves the store
\* unchanged, in both stores and whatever the store holds
C17_DeleteInvalidID ==
    [][(last'.op = "delete" /\ last'.arg.ID <= 0)
       => /\ last'.err = ErrInvalidID
          /\ UNCHANGED <<entries, nextID, rows>>]_vars

\* a delete with id 0 rejected by a store that holds an entry
C17_Witness ==
    /\ last.op = "delete" /\ last.arg.ID <= 0 /\ last.err = ErrInvalidID
    /\ Len(StoreEntries) = 1

\* C18: get and update with a non-positive id return the invalid-id error,
\* which is not the not-found error
C18_InvalidIDOutcome ==
    [][(last'.op \in {"get", "update"} /\ last'.arg.ID <= 0)
       => (last'.err = ErrInvalidID /\ ErrInvalidID # ErrNotFound)]_vars

\* the sort key of an entry
KeyOf(e, sortBy) == IF sortBy = "weight" THEN e.Weight ELSE e.Date

\* s holds each stored entry of the unit once (every entry when unit is "")
\* and nothing else
PermutationOfStore(s, unit) ==
    /\ \A i \in 1..Len(StoreEntries) :
         Count(s, StoreEntries[i])
            = IF unit = "" \/ StoreEntries[i].Unit = unit THEN 1 ELSE 0
    /\ \A k \in 1..Len(s) : Count(StoreEntries, s[k]) = 1

\* every adjacent pair of s is in the order of the key and direction
Ordered(s, sortBy, sortDesc) ==
    \A i \in 1..(Len(s) - 1) :
        IF sortDesc THEN KeyOf(s[i], sortBy) >= KeyOf(s[i + 1], sortBy)
        ELSE KeyOf(s[i], sortBy) <= KeyOf(s[i + 1], sortBy)

\* C12: list with sort key weight (no date bound, no limit) returns a
\* permutation of the filtered entries in which adjacent weights are
\* non-decreasing when ascending and non-increasing when descending; with
\* sort key date the same on the dates
C12_SortedByKey ==
    (/\ last.op = "list"
     /\ last.opts.SortBy \in {"weight", "date"}
     /\ last.opts.FromDate = NoDate /\ last.opts.ToDate = NoDate
     /\ last.opts.Limit = 0)
    => /\ PermutationOfStore(last.list, last.opts.Unit)
       /\ Ordered(last.list, last.opts.SortBy, last.opts.SortDesc)

\* three entries listed by ascending weight in another order than stored
C12_Witness ==
    /\ last.op = "list" /\ last.opts.SortBy = "weight" /\ ~last.opts.SortDesc
    /\ Len(last.list) = 3 /\ last.list # StoreEntries
    /\ last.list[1].Weight < last.list[3].Weight

StorePos(id) == CHOOSE i \in 1..Len(StoreEntries) : StoreEntries[i].ID = id

\* C14: in a sorted list result, entries that tie on the sort key appear in
\* the order in which the store holds them
C14_SortStable ==
    (/\ last.op = "list"
     /\ last.opts.SortBy \in {"weight", "date"}
     /\ last.opts.FromDate = NoDate /\ last.opts.ToDate = NoDate
     /\ last.opts.Limit = 0)
    => \A i, j \in 1..Len(last.list) :
          (/\ i < j
           /\ KeyOf(last.list[i], last.opts.SortBy)
                = KeyOf(last.list[j], last.opts.SortBy))
          => StorePos(last.list[i].ID) < StorePos(last.list[j].ID)

\* C16: validate returns ok exactly when weight > 0 and unit is one of "",
\* "kg", "lbs" (so "KG" is rejected), and the id, date, note and owner of the
\* entry do not affect the result
C16_ValidateIff ==
    last.op = "validate"
    => /\ last.err = ErrNil
            <=> (last.arg.Weight > 0 /\ last.arg.Unit \in {"", "kg", "lbs"})
       /\ \A e \in ValidateArgs :
            (e.Weight = last.arg.Weight /\ e.Unit = last.arg.Unit)
            => ValidateWeightEntry(e) = last.err

\* an entry with id, date, note and owner set rejected for its unit "KG"
C16_Witness ==
    /\ last.op = "validate" /\ last.err = ErrInvalidUnit
    /\ last.arg.Unit = "KG" /\ last.arg.Weight > 0
    /\ last.arg.ID # 0 /\ last.arg.Date # 0
    /\ last.arg.Note # "" /\ last.arg.UserID # ""

\* the fields of an entry beside the id
EntryFields == {"Weight", "Date", "Unit", "Note", "UserID"}

RECURSIVE SumWeights(_)
SumWeights(s) == IF s = <<>> THEN 0 ELSE s[1].Weight + SumWeights(Tail(s))

\* C20: the TimeSpan calculateStatistics gives for a slice is the one it
\* gives with the zero-date entries removed, namely latest minus earliest
\* valid date when at least two entries have a valid date and 0 otherwise;
\* MinWeight, MaxWeight, AverageWeight and TotalEntries are those of all the
\* entries, wherever the undated ones are
C20_StatisticsUndated ==
    last.op = "stats"
    => LET s == last.input
           st == last.stats
           dated == SelectSeq(s, LAMBDA e : ~IsZero(e.Date))
           valid == {i \in 1..Len(s) : ~IsZero(s[i].Date) /\ Year(s[i].Date) > 1}
           earliest == CHOOSE i \in valid : \A j \in valid : s[i].Date <= s[j].Date
           latest == CHOOSE i \in valid : \A j \in valid : s[j].Date <= s[i].Date
       IN  /\ st.TimeSpan = calculateStatistics(dated).TimeSpan
           /\ st.TimeSpan = IF Cardinality(valid) >= 2
                            THEN s[latest].Date - s[earliest].Date ELSE 0
           /\ st.TotalEntries = Len(s)
           /\ s # <<>> =>
                /\ \A i \in 1..Len(s) :
                     st.MinWeight <= s[i].Weight /\ s[i].Weight <= st.MaxWeight
                /\ \E i \in 1..Len(s) : st.MinWeight = s[i].Weight
                /\ \E i \in 1..Len(s) : st.MaxWeight = s[i].Weight
                /\ st.AverageWeight = [Num |-> SumWeights(s), Den |-> Len(s)]

\* three entries, the first and lightest undated, the other two on different
\* valid dates given latest first
C20_Witness ==
    /\ last.op = "stats" /\ Len(last.input) = 3
    /\ IsZero(last.input[1].Date)
    /\ last.input[2].Date > last.input[3].Date /\ Year(last.input[3].Date) > 1
    /\ last.stats.TimeSpan > 0
    /\ last.stats.MinWeight = last.input[1].Weight
    /\ last.input[1].Weight < last.input[2].Weight
    /\ last.input[1].Weight < last.input[3].Weight

\* C15: every call of a sequence of add, get, list, update and delete calls
\* applied with the same arguments to a fresh MockStore and a fresh DBStore
\* returns the same outcome from both: the same error or success and, on
\* success, equal entries or entry sequences
C15_SameOutcome ==
    last.op # "none" => last.mock = last.db

\* C21: calculateStatistics of the empty slice returns the all-zero
\* statistics (no entries, zero minimum, maximum, average, range and time
\* span); of a single entry it returns that entry's weight as minimum,
\* maximum and average, a zero weight range and a zero time span
C21_StatisticsEmptyAndSingle ==
    last.op = "stats"
    => LET s == last.input
           st == last.stats
       IN  /\ Len(s) = 0 =>
                /\ st.TotalEntries = 0
                /\ st.MinWeight = 0 /\ st.MaxWeight = 0
                /\ st.AverageWeight.Num = 0 /\ st.AverageWeight.Den # 0
                /\ st.WeightRange = 0 /\ st.TimeSpan = 0
           /\ Len(s) = 1 =>
                /\ st.TotalEntries = 1
                /\ st.MinWeight = s[1].Weight /\ st.MaxWeight = s[1].Weight
                /\ st.AverageWeight.Num = s[1].Weight * st.AverageWeight.Den
                /\ st.AverageWeight.Den # 0
                /\ st.WeightRange = 0 /\ st.TimeSpan = 0

\* the statistics of one entry of weight 2 on a valid date
C21_Witness ==
    /\ last.op = "stats" /\ Len(last.input) = 1
    /\ last.input[1].Weight = 2 /\ Year(last.input[1].Date) > 1
    /\ last.stats.AverageWeight = [Num |-> 2, Den |-> 1]

\* C22: GenerateWeightChart, generateASCIIChart and generateHTMLChart, given
\* an empty slice of entries, each return an error and emit no chart
\* (nothing printed, no file created, no series, no output path), whatever
\* the output type
C22_EmptyChartRejected ==
    (/\ last.op \in {"GenerateWeightChart", "generateASCIIChart",
                     "generateHTMLChart"}
     /\ last.input = <<>>)
    => /\ last.chart.err # ErrNil
       /\ ~last.chart.printed /\ ~last.chart.created
       /\ last.chart.path = "" /\ last.chart.dots = {}
       /\ last.chart.xAxisData = <<>> /\ last.chart.yAxisData = <<>>

\* GenerateWeightChart of the empty slice for the html output type
C22_Witness ==
    /\ last.op = "GenerateWeightChart" /\ last.input = <<>>
    /\ last.outputType = "html" /\ last.chart.err = ErrNoWeightEntries

\* C23: when at least one entry of the slice has a real date (not the zero
\* time and past year 1), the series form emits days from the earliest real
\* date as x-coordinates: the first is 0 and they never decrease along the
\* series
C23_SeriesMonotone ==
    (/\ last.op \in {"GenerateWeightChart", "generateHTMLChart"}
     /\ last.chart.err = ErrNil /\ last.chart.created
     /\ \E i \in 1..Len(last.input) : ~IsZero(last.input[i].Date)
                                        /\ Year(last.input[i].Date) > 1)
    => LET xs == last.chart.xAxisData
       IN  /\ Len(xs) >= 1
           /\ \A i \in 1..Len(xs) : xs[i].kind = "days"
           /\ xs[1].value = 0
           /\ \A i \in 1..(Len(xs) - 1) : xs[i].value <= xs[i + 1].value

\* generateHTMLChart of three entries given latest first, the last undated:
\* two coordinates, 0 and a later day
C23_Witness ==
    /\ last.op = "generateHTMLChart" /\ last.chart.err = ErrNil
    /\ Len(last.input) = 3 /\ IsZero(last.input[3].Date)
    /\ last.input[1].Date > last.input[2].Date
    /\ Year(last.input[2].Date) > 1
    /\ Len(last.chart.xAxisData) = 2
    /\ last.chart.xAxisData[1].value = 0
    /\ last.chart.xAxisData[2].value > 0
    /\ last.chart.yAxisData = <<last.input[2].Weight, last.input[1].Weight>>

\* the slice a grid was drawn from: GenerateWeightChart sorts it first
GridInput == last.chart.entries

\* weight w lies at row y of the grid of slice s: y is the whole part of
\* (chartHeight - 1) * (max + pad - w) / (max - min + 2 * pad), pad a tenth
\* of the range (of 1 when the range is zero), or one less where that
\* quotient is a whole number
InterpolatedRow(s, w, y) ==
    LET mn == CHOOSE v \in {s[i].Weight : i \in 1..Len(s)} :
                  \A i \in 1..Len(s) : v <= s[i].Weight
        mx == CHOOSE v \in {s[i].Weight : i \in 1..Len(s)} :
                  \A i \in 1..Len(s) : v >= s[i].Weight
        range == IF mx = mn THEN 1 ELSE mx - mn
        num == (chartHeight - 1) * (10 * (mx - w) + range)
        den == 10 * (mx - mn) + 2 * range
    IN  y * den <= num /\ num <= (y + 1) * den

\* C24: in the grid of a non-empty slice the entry at ordinal i (from 0) is
\* plotted exactly when i < 20, in column i, at the row that interpolates
\* its weight over the padded range with row 0 at the top, and that row is
\* one of the rows 0..9; no entry from ordinal 20 on is plotted
C24_GridPlot ==
    (/\ last.op \in {"GenerateWeightChart", "generateASCIIChart"}
     /\ last.chart.printed)
    => /\ \A i \in 0..(Len(GridInput) - 1) :
            i < MaxChartWidth =>
                \E y \in 0..(chartHeight - 1) :
                    /\ <<y, i>> \in last.chart.dots
                    /\ InterpolatedRow(GridInput, GridInput[i + 1].Weight, y)
                    /\ \A z \in 0..(chartHeight - 1) :
                         <<z, i>> \in last.chart.dots => z = y
       /\ \A d \in last.chart.dots :
            d[2] < MaxChartWidth /\ d[2] < Len(GridInput)

\* C25: a run of the delete command changes the store only by removing the
\* entry of its id, and only when --confirm or --force is set or the answer
\* read at the prompt is y, Y, yes or Yes; any other answer ends the run
\* with success and the store unchanged; in every run the GetWeight call
\* comes first, the prompt (when there is one) after it, and the
\* DeleteWeight call last
C25_DeleteConfirmed ==
    [][last'.op = "runDelete" =>
        LET run == last'
            n == Len(run.events)
        IN  /\ rows' # rows =>
                  /\ run.confirm \/ run.force
                        \/ run.response \in {"y", "Y", "yes", "Yes"}
                  /\ run.err = ErrNil /\ run.pc = "done"
                  /\ RowIndexIn(rows, run.arg) # 0
                  /\ rows' = RemoveAt(rows, RowIndexIn(rows, run.arg))
            /\ (/\ last.op = "runDelete" /\ last.pc = "prompt"
                /\ run.response \notin {"y", "Y", "yes", "Yes"})
                  => rows' = rows /\ run.err = ErrNil /\ run.pc = "done"
            /\ \A k \in 1..n :
                  /\ run.events[k] = "GetWeight" => k = 1
                  /\ run.events[k] = "prompt" =>
                        k = 2 /\ run.events[1] = "GetWeight"
                  /\ run.events[k] = "DeleteWeight" =>
                        /\ k = n /\ k > 1 /\ run.events[1] = "GetWeight"
                        /\ run.confirm \/ run.force
                              \/ run.events[k - 1] = "prompt"
    ]_vars

\* a run without flags that found the entry, prompted, read yes and deleted
\* the only entry
C25_Witness ==
    /\ last.op = "runDelete" /\ last.pc = "done" /\ last.err = ErrNil
    /\ ~last.confirm /\ ~last.force /\ last.response = "yes"
    /\ last.events = <<"GetWeight", "prompt", "DeleteWeight">>
    /\ rows = <<>>

\* C26: whatever DATE_INPUT_FORMAT, DATE_DISPLAY_FORMAT and DEFAULT_UNIT
\* hold, GetAppConfigFromEnv returns a DefaultUnit of kg or lbs (kg when the
\* variable is unset or unsupported), an InputFormat and a DisplayFormat
\* among the six supported layouts (the dd-mm-yyyy layout when the variable
\* is unset or unsupported), and the ISO yyyy-mm-dd layout as DBFormat
C26_ConfigFromEnv ==
    last.op = "GetAppConfigFromEnv"
    => LET c == last.config
           layouts == {"02-01-2006", "01-02-2006", "2006-01-02",
                       "02/01/2006", "01/02/2006", "2006/01/02"}
           names == {"dd-mm-yyyy", "mm-dd-yyyy", "yyyy-mm-dd",
                     "dd/mm/yyyy", "mm/dd/yyyy", "yyyy/mm/dd"}
       IN  /\ c.DefaultUnit \in {"kg", "lbs"}
           /\ last.env["DEFAULT_UNIT"] \notin {"kg", "lbs"}
                => c.DefaultUnit = "kg"
           /\ last.env["DEFAULT_UNIT"] \in {"kg", "lbs"}
                => c.DefaultUnit = last.env["DEFAULT_UNIT"]
           /\ c.DateFormat.InputFormat \in layouts
           /\ c.DateFormat.DisplayFormat \in layouts
           /\ last.env["DATE_INPUT_FORMAT"] \notin names
                => c.DateFormat.InputFormat = "02-01-2006"
           /\ last.env["DATE_DISPLAY_FORMAT"] \notin names
                => c.DateFormat.DisplayFormat = "02-01-2006"
           /\ c.DateFormat.DBFormat = "2006-01-02"

\* an environment with a supported input format, an unsupported display
\* format and an unsupported unit
C26_Witness ==
    /\ last.op = "GetAppConfigFromEnv"
    /\ last.env["DATE_INPUT_FORMAT"] = "yyyy/mm/dd"
    /\ last.env["DATE_DISPLAY_FORMAT"] = "DD-MM-YYYY"
    /\ last.env["DEFAULT_UNIT"] = "KG"
    /\ last.config.DateFormat.InputFormat = "2006/01/02"
    /\ last.config.DateFormat.DisplayFormat = "02-01-2006"
    /\ last.config.DefaultUnit = "kg"

\* C27: when the update command was given --note and the user confirmed, the
\* stored entry has the given note afterwards, the empty note included
C27_NoteFlagStored ==
    [][\A id \in ListIDs :
        (/\ last'.op = "runUpdate" /\ last'.pc = "done" /\ last'.arg = id
         /\ last'.err = ErrNil
         /\ last'.response \in {"y", "Y", "yes", "Yes"}
         /\ last'.flags.note # NotGiven)
        => /\ GetResult(id)'.err = ErrNil
           /\ GetResult(id)'.entry.Note = last'.flags.note
    ]_vars

\* C28: MockStore numbers its entries from a counter that starts at 1: each
\* add returns the counter's value and moves the counter one up, no other
\* call moves it, and every stored id is below it; so the k-th add returns
\* id k whatever updates and deletes come between, and the id of a deleted
\* entry is not returned again
C28_SequentialIDs ==
    /\ impl = "mock" => nextID = 1
    /\ [][impl = "mock" =>
            /\ IF last'.op = "add"
               THEN /\ last'.err = ErrNil
                    /\ last'.entry.ID = nextID
                    /\ nextID' = nextID + 1
                    /\ \A i \in 1..Len(entries) :
                         entries[i].ID # last'.entry.ID
               ELSE nextID' = nextID
            /\ \A i \in 1..Len(entries') : entries'[i].ID < nextID'
       ]_vars

\* the second add of a MockStore whose first entry was deleted: it returns
\* id 2 and is the only entry
C28_Witness ==
    /\ impl = "mock" /\ last.op = "add" /\ last.entry.ID = 2
    /\ Len(entries) = 1 /\ entries[1].ID = 2 /\ nextID = 3

\* C29: a delete on MockStore that succeeds removes the one entry with the
\* id and leaves every other entry with its fields, in the same order, and
\* the id counter as it was; a delete that returns NotFound changes nothing
C29_DeleteFrame ==
    [][(impl = "mock" /\ last'.op = "delete") =>
        /\ nextID' = nextID
        /\ last'.err = ErrNotFound => entries' = entries
        /\ last'.err = ErrNil =>
             \E i \in 1..Len(entries) :
                /\ entries[i].ID = last'.arg.ID
                /\ Len(entries') = Len(entries) - 1
                /\ \A k \in 1..Len(entries') :
                     entries'[k] = IF k < i THEN entries[k] ELSE entries[k + 1]
    ]_vars

\* the first of three entries was deleted: the other two are left, in order
C29_Witness ==
    /\ impl = "mock" /\ last.op = "delete" /\ last.err = ErrNil
    /\ last.arg.ID = 1 /\ nextID = 4
    /\ Len(entries) = 2 /\ entries[1].ID = 2 /\ entries[2].ID = 3

\* C30: a list call on MockStore, whatever its filter, sort key, direction
\* and limit, leaves the stored entries, their order and the id counter as
\* they were, and the same call made again returns the same result
C30_ListFrame ==
    [][(impl = "mock" /\ last'.op = "list") =>
        /\ entries' = entries
        /\ nextID' = nextID
        /\ last'.list = MockListResult(entries, last'.opts)
        /\ MockListResult(entries', last'.opts) = last'.list
    ]_vars

\* a list call that returned two entries in the reverse of the store's order
C30_Witness ==
    /\ impl = "mock" /\ last.op = "list" /\ Len(entries) = 2
    /\ last.list = <<entries[2], entries[1]>>

====
